---- MODULE Spec2Model ----
(***************************************************************************)
(* DocSetQuery: the front-matter parsers, the heading extractor, the TOC   *)
(* scanner, the document peeker, the index builder, search and skim        *)
(* (tools/docindex.py, tools/docmeta.py).                                  *)
(*                                                                         *)
(* A Python str is a sequence of one-character strings, so that strip,     *)
(* startswith, split, lower and slicing are computed and not assumed.      *)
(* The characters are ASCII letters, digits, the space, the newline and    *)
(* the punctuation the code tests for.                                     *)
(***************************************************************************)
EXTENDS Integers, Sequences, FiniteSets, TLC

(***************************************************************************)
(* Bounds of the model.                                                    *)
(***************************************************************************)
\* number of lines between the opening --- and the end of the header
MaxHeader == 3
\* number of body lines of a document given to the heading extractor
MaxBody == 4
\* number of lines after the front matter of a peeked document
MaxToc == 4
\* largest max_lines budget supplied to the peeker
MaxBudget == 3
\* number of target paths given to skim_files
MaxPaths == 3
\* number of entries of a searched index
MaxEntries == 2
\* number of characters of a text given to _slugify
MaxSlug == 3
\* number of lines between the --- lines of a document given to the sanitizer
MaxSanHeader == 2
\* number of lines after the front matter of a document given to the sanitizer
MaxSanBody == 3

(***************************************************************************)
(* str methods.                                                            *)
(***************************************************************************)
NL == "\n"

UpperSeq == <<"A","B","C","D","E","F","G","H","I","J","K","L","M",
              "N","O","P","Q","R","S","T","U","V","W","X","Y","Z">>

LowerSeq == <<"a","b","c","d","e","f","g","h","i","j","k","l","m",
              "n","o","p","q","r","s","t","u","v","w","x","y","z">>

Digits == {"0","1","2","3","4","5","6","7","8","9"}

\* LATIN CAPITAL LETTER I WITH DOT ABOVE, one character
I_DOT == "U+0130"

\* COMBINING DOT ABOVE, one character
COMBINING_DOT == "U+0307"

Range(s) == {s[i] : i \in 1..Len(s)}

\* str.isspace for one character
IsSpace(c) == c \in {" ", NL}

\* str.isalnum for one character
IsAlnum(c) == c \in Range(UpperSeq) \cup Range(LowerSeq) \cup Digits \cup {I_DOT}

\* str.lower for one character
LowerCh(c) ==
  IF c \in Range(UpperSeq)
  THEN LowerSeq[CHOOSE i \in 1..Len(UpperSeq) : UpperSeq[i] = c]
  ELSE c

\* str.lower for one character: a str, of two characters for I_DOT
LowerOf(c) == IF c = I_DOT THEN <<"i", COMBINING_DOT>> ELSE <<LowerCh(c)>>

RECURSIVE Lower(_)
\* str.lower()
Lower(s) == IF s = <<>> THEN <<>> ELSE LowerOf(Head(s)) \o Lower(Tail(s))

\* s[n:]
From(s, n) == SubSeq(s, n + 1, Len(s))

RECURSIVE LStripSet(_, _)
\* s.lstrip(chars)
LStripSet(s, cs) ==
  IF s # <<>> /\ Head(s) \in cs THEN LStripSet(Tail(s), cs) ELSE s

RECURSIVE RStripSet(_, _)
\* s.rstrip(chars)
RStripSet(s, cs) ==
  IF s # <<>> /\ s[Len(s)] \in cs THEN RStripSet(SubSeq(s, 1, Len(s) - 1), cs) ELSE s

\* s.lstrip()
LStrip(s) == LStripSet(s, {" ", NL})

\* s.strip()
Strip(s) == RStripSet(LStripSet(s, {" ", NL}), {" ", NL})

\* s.rstrip("\n")
RStripNL(s) == RStripSet(s, {NL})

\* s.startswith(p)
StartsWith(s, p) == Len(s) >= Len(p) /\ SubSeq(s, 1, Len(p)) = p

\* c in s, for one character c
HasChar(s, c) == \E i \in 1..Len(s) : s[i] = c

\* t in s, for a str t
Contains(s, t) == \E i \in 0..(Len(s) - Len(t)) : SubSeq(s, i + 1, i + Len(t)) = t

\* s.split(c, 1) of a str that holds c: the part before the first c
SplitHead(s, c) ==
  LET i == CHOOSE j \in 1..Len(s) : s[j] = c /\ \A k \in 1..(j - 1) : s[k] # c
  IN SubSeq(s, 1, i - 1)

\* s.split(c, 1) of a str that holds c: the part after the first c
SplitTail(s, c) ==
  LET i == CHOOSE j \in 1..Len(s) : s[j] = c /\ \A k \in 1..(j - 1) : s[k] # c
  IN From(s, i)

\* the sequences over S of length at most n
SeqUpTo(S, n) == UNION {[1..k -> S] : k \in 0..n}

(***************************************************************************)
(* Literals of the code.                                                   *)
(***************************************************************************)
DASHES == <<"-","-","-">>

ITEM_PREFIX == <<" "," ","-"," ">>

DASH_PREFIX == <<"-"," ">>

HASH2_PREFIX == <<"#","#"," ">>

TOC_MARKER == <<"#","#"," ","T","a","b","l","e"," ","o","f"," ",
                "C","o","n","t","e","n","t","s">>

ANCHOR_OPEN == <<"<","a"," ","i","d","=","\"">>

ANCHOR_CLOSE == <<"\"",">","<","/","a",">">>

KEY_SECTIONS == <<"k","e","y","_","s","e","c","t","i","o","n","s">>

SECTION == <<"s","e","c","t","i","o","n">>

(***************************************************************************)
(* Python values held by a front-matter mapping.  An Optional[str] is a    *)
(* sequence of no or one str.                                              *)
(***************************************************************************)
None == <<>>

Some(x) == <<x>>

\* truth value of an Optional[str]: None and "" are false
Truthy(o) == o # <<>> /\ o[1] # <<>>

VList(items) == [t |-> "list", v |-> items]

VStr(s) == [t |-> "str", v |-> s]

VInt(n) == [t |-> "int", v |-> n]

VDict(d) == [t |-> "dict", v |-> d]

EmptyDict == [k \in {} |-> VList(<<>>)]

\* d[key] = val
DictSet(d, key, val) ==
  [k \in DOMAIN d \cup {key} |-> IF k = key THEN val ELSE d[k]]

\* int(value) succeeds: an optional sign, then digits with single
\* underscores between them
IsIntLiteral(value) ==
  LET body == IF value # <<>> /\ Head(value) \in {"-", "+"} THEN Tail(value) ELSE value
  IN /\ body # <<>>
     /\ \A i \in 1..Len(body) : body[i] \in Digits \cup {"_"}
     /\ body[1] \in Digits
     /\ body[Len(body)] \in Digits
     /\ \A i \in 1..(Len(body) - 1) : ~(body[i] = "_" /\ body[i + 1] = "_")

DigitSeq == <<"0","1","2","3","4","5","6","7","8","9">>

DigitVal(c) == (CHOOSE i \in 1..10 : DigitSeq[i] = c) - 1

RECURSIVE DigitsVal(_, _)
\* the number written by the digits of s, after the digits already read as acc
DigitsVal(s, acc) ==
  IF s = <<>> THEN acc
  ELSE IF Head(s) = "_" THEN DigitsVal(Tail(s), acc)
  ELSE DigitsVal(Tail(s), 10 * acc + DigitVal(Head(s)))

\* int(value) of a literal
IntOf(value) ==
  IF Head(value) = "-" THEN 0 - DigitsVal(Tail(value), 0)
  ELSE IF Head(value) = "+" THEN DigitsVal(Tail(value), 0)
  ELSE DigitsVal(value, 0)

(***************************************************************************)
(* docindex._slugify                                                       *)
(***************************************************************************)
RECURSIVE SlugKeep(_)
\* the loop over the characters: keep[] joined
SlugKeep(text) ==
  IF text = <<>> THEN <<>>
  ELSE IF IsAlnum(Head(text)) THEN LowerOf(Head(text)) \o SlugKeep(Tail(text))
  ELSE IF Head(text) \in {"/", "-", "_"} THEN <<"-">> \o SlugKeep(Tail(text))
  ELSE SlugKeep(Tail(text))

RECURSIVE ReplaceDashDash(_)
\* slug.replace("--", "-"): one pass, left to right, without overlap
ReplaceDashDash(s) ==
  IF Len(s) < 2 THEN s
  ELSE IF s[1] = "-" /\ s[2] = "-" THEN <<"-">> \o ReplaceDashDash(From(s, 2))
  ELSE <<s[1]>> \o ReplaceDashDash(Tail(s))

RECURSIVE CollapseDashes(_)
\* while "--" in slug: slug = slug.replace("--", "-")
CollapseDashes(s) ==
  IF Contains(s, <<"-","-">>) THEN CollapseDashes(ReplaceDashDash(s)) ELSE s

slugify(text) ==
  LET slug == RStripSet(LStripSet(CollapseDashes(SlugKeep(text)), {"-"}), {"-"})
  IN IF slug = <<>> THEN SECTION ELSE slug

(***************************************************************************)
(* docindex._parse_front_matter                                            *)
(***************************************************************************)
\* the value stored for a non-empty scalar: "[]" and "null" give a list,
\* an integer literal an int, anything else the str
ConvertScalar(value) ==
  IF value \in {<<"[","]">>, <<"n","u","l","l">>} THEN VList(<<>>)
  ELSE IF IsIntLiteral(value) THEN VInt(IntOf(value))
  ELSE VStr(value)

\* SetDefaultAppend with the list replaced instead of extended
SetDefaultAppend_Overwrite(data, key, value) ==
  [data |-> DictSet(data, key, VList(<<value>>)), raised |-> FALSE]

\* data.setdefault(key, []).append(value): the mapping afterwards, and
\* whether append raised AttributeError (the value held is no list)
SetDefaultAppend(data, key, value) ==
  LET cur == IF key \in DOMAIN data THEN data[key] ELSE VList(<<>>)
  IN IF cur.t = "list"
     THEN [data |-> DictSet(data, key, VList(Append(cur.v, value))), raised |-> FALSE]
     ELSE [data |-> data, raised |-> TRUE]

\* the state of the parser before its loop
ParseStart == [data |-> EmptyDict, idx |-> 1, current_key |-> None,
               done |-> FALSE, raised |-> FALSE]

\* one iteration of the while loop on lines[idx]
parse_front_matter_line(p, line) ==
  LET raw == RStripNL(line)
      q == [p EXCEPT !.idx = @ + 1]
  IN IF Strip(raw) = DASHES THEN [q EXCEPT !.done = TRUE]
     ELSE IF StartsWith(raw, ITEM_PREFIX) /\ Truthy(p.current_key)
     THEN LET r == SetDefaultAppend(p.data, p.current_key[1], Strip(From(raw, 4)))
          IN [q EXCEPT !.data = r.data, !.raised = r.raised]
     ELSE IF ~HasChar(raw, ":") THEN q
     ELSE LET key == Strip(SplitHead(raw, ":"))
              value == Strip(SplitTail(raw, ":"))
          IN [q EXCEPT !.current_key = Some(key),
                       !.data = DictSet(@, key, IF value = <<>> THEN VList(<<>>)
                                                ELSE ConvertScalar(value))]

\* the loop has more to do
ParseRunning(lines, p) == ~p.done /\ ~p.raised /\ p.idx < Len(lines)

RECURSIVE ParseLoop(_, _)
ParseLoop(lines, p) ==
  IF ParseRunning(lines, p)
  THEN ParseLoop(lines, parse_front_matter_line(p, lines[p.idx + 1]))
  ELSE p

\* whether the function reaches its loop: the first line is ---
HasHeader(lines) == lines # <<>> /\ Strip(lines[1]) = DASHES

\* (front matter, offset): some is FALSE for the None of a document without
\* header; raised says the call ended in AttributeError instead of returning
parse_front_matter(lines) ==
  IF ~HasHeader(lines)
  THEN [some |-> FALSE, data |-> EmptyDict, idx |-> 0, raised |-> FALSE]
  ELSE LET p == ParseLoop(lines, ParseStart)
       IN [some |-> TRUE, data |-> p.data, idx |-> p.idx, raised |-> p.raised]

(***************************************************************************)
(* docindex._collect_headings                                              *)
(***************************************************************************)
\* anchor_pattern.match(stripped): <a id=" then one or more characters other
\* than the quote, then "></a>, at the start of the line
AnchorMatches(stripped) ==
  /\ StartsWith(stripped, ANCHOR_OPEN)
  /\ LET rest == From(stripped, Len(ANCHOR_OPEN))
     IN /\ HasChar(rest, "\"")
        /\ SplitHead(rest, "\"") # <<>>
        /\ StartsWith(From(rest, Len(SplitHead(rest, "\""))), ANCHOR_CLOSE)

\* match.group(1)
AnchorId(stripped) == SplitHead(From(stripped, Len(ANCHOR_OPEN)), "\"")

Min(a, b) == IF a < b THEN a ELSE b

HeadingsStart == [headings |-> <<>>, pending_anchor |-> None]

\* collect_headings_line without the reset of pending_anchor after a heading
collect_headings_line_KeepPending(h, raw) ==
  LET stripped == Strip(raw)
      content == LStrip(raw)
      level == Len(content) - Len(LStripSet(content, {"#"}))
      text == Strip(From(content, level))
  IN IF AnchorMatches(stripped) THEN [h EXCEPT !.pending_anchor = Some(AnchorId(stripped))]
     ELSE IF ~StartsWith(content, <<"#">>) THEN h
     ELSE IF text = <<>> THEN h
     ELSE [h EXCEPT !.headings = Append(@,
                          [text |-> text,
                           anchor |-> IF Truthy(h.pending_anchor) THEN h.pending_anchor[1]
                                      ELSE slugify(text),
                           level |-> Min(level, 6)])]

\* one iteration of the for loop
collect_headings_line(h, raw) ==
  LET stripped == Strip(raw)
      content == LStrip(raw)
      level == Len(content) - Len(LStripSet(content, {"#"}))
      text == Strip(From(content, level))
  IN IF AnchorMatches(stripped) THEN [h EXCEPT !.pending_anchor = Some(AnchorId(stripped))]
     ELSE IF ~StartsWith(content, <<"#">>) THEN h
     ELSE IF text = <<>> THEN h
     ELSE [headings |-> Append(h.headings,
                          [text |-> text,
                           anchor |-> IF Truthy(h.pending_anchor) THEN h.pending_anchor[1]
                                      ELSE slugify(text),
                           level |-> Min(level, 6)]),
           pending_anchor |-> None]

RECURSIVE CollectLoop(_, _, _)
CollectLoop(lines, i, h) ==
  IF i > Len(lines) THEN h
  ELSE CollectLoop(lines, i + 1, collect_headings_line(h, lines[i]))

\* the headings of lines[start_index:]
collect_headings(lines, start_index) ==
  CollectLoop(lines, start_index + 1, HeadingsStart).headings

(***************************************************************************)
(* docmeta._parse_front_matter_stream                                      *)
(***************************************************************************)
\* data.get(key) of a key the mapping does not hold
VNone == [t |-> "none", v |-> <<>>]

DictGet(d, o) == IF o # <<>> /\ o[1] \in DOMAIN d THEN d[o[1]] ELSE VNone

\* the state of the parser before its loop
StreamStart == [data |-> EmptyDict, raw_lines |-> <<>>, carry |-> <<>>,
                parent_key |-> None, nested_current_key |-> None,
                current_key |-> None, done |-> FALSE, raised |-> FALSE]

\* one iteration of the for loop, on the line raw pulled from the stream
parse_front_matter_stream_line(f, raw) ==
  LET stripped == Strip(raw)
      indent == Len(raw) - Len(LStripSet(raw, {" "}))
      isDash == StartsWith(stripped, DASH_PREFIX)
      g == [f EXCEPT !.raw_lines = Append(@, RStripNL(raw))]
      inNested == indent > 0 /\ Truthy(f.parent_key)
      target0 == DictGet(f.data, f.parent_key)
      converted == inNested /\ target0.t = "list" /\ ~isDash
      data1 == IF converted THEN DictSet(f.data, f.parent_key[1], VDict(EmptyDict))
               ELSE f.data
      target == IF converted THEN VDict(EmptyDict) ELSE target0
      g1 == [g EXCEPT !.data = data1, !.nested_current_key = None]
  IN IF stripped = DASHES THEN [f EXCEPT !.done = TRUE]
     ELSE IF inNested /\ target.t = "list" /\ isDash
     THEN [g EXCEPT !.data = DictSet(data1, f.parent_key[1],
                                VList(Append(target.v, Strip(From(stripped, 2)))))]
     ELSE IF inNested /\ target.t = "dict" /\ isDash
     THEN IF Truthy(f.nested_current_key)
          THEN LET r == SetDefaultAppend(target.v, f.nested_current_key[1],
                                         Strip(From(stripped, 2)))
               IN [g EXCEPT !.data = DictSet(data1, f.parent_key[1], VDict(r.data)),
                            !.raised = r.raised]
          ELSE [g EXCEPT !.data = data1]
     ELSE IF inNested /\ target.t = "dict" /\ HasChar(stripped, ":")
     THEN LET nkey == Strip(SplitHead(stripped, ":"))
              nvalue == Strip(SplitTail(stripped, ":"))
          IN [g EXCEPT !.nested_current_key = Some(nkey),
                       !.data = DictSet(data1, f.parent_key[1],
                                  VDict(DictSet(target.v, nkey,
                                    IF nvalue = <<>> THEN VList(<<>>) ELSE VStr(nvalue))))]
     ELSE IF isDash /\ Truthy(f.current_key)
     THEN LET r == SetDefaultAppend(data1, f.current_key[1], Strip(From(stripped, 2)))
          IN [g1 EXCEPT !.data = r.data, !.raised = r.raised]
     ELSE IF StartsWith(stripped, ITEM_PREFIX) /\ Truthy(f.current_key)
     THEN LET r == SetDefaultAppend(data1, f.current_key[1], Strip(From(stripped, 4)))
          IN [g1 EXCEPT !.data = r.data, !.raised = r.raised]
     ELSE IF ~HasChar(raw, ":") THEN g1
     ELSE LET key == Strip(SplitHead(raw, ":"))
              value == Strip(SplitTail(raw, ":"))
          IN [g1 EXCEPT !.current_key = Some(key),
                        !.parent_key = IF indent = 0 THEN Some(key) ELSE @,
                        !.data = DictSet(data1, key,
                                   IF value = <<>> THEN VList(<<>>)
                                   ELSE IF IsIntLiteral(value) THEN VInt(IntOf(value))
                                   ELSE VStr(value))]

(***************************************************************************)
(* docmeta._read_toc_block                                                 *)
(***************************************************************************)
TocStart == [toc |-> <<>>, started |-> FALSE, lines_scanned |-> 0,
             truncated |-> FALSE, done |-> FALSE]

\* read_toc_block_line that breaks on the budget without setting truncated
read_toc_block_line_NoFlag(t, raw, max_lines) ==
  LET stripped == Strip(raw)
      u == [t EXCEPT !.lines_scanned = @ + 1]
  IN IF max_lines # 0 /\ u.lines_scanned > max_lines
     THEN [u EXCEPT !.done = TRUE]
     ELSE IF ~t.started
     THEN IF stripped = TOC_MARKER
          THEN [u EXCEPT !.started = TRUE, !.toc = Append(@, stripped)]
          ELSE u
     ELSE IF StartsWith(stripped, HASH2_PREFIX) /\ stripped # TOC_MARKER
     THEN [u EXCEPT !.done = TRUE]
     ELSE IF stripped = <<>> THEN u
     ELSE [u EXCEPT !.toc = Append(@, RStripNL(raw))]

\* read_toc_block_line that collects blank lines too
read_toc_block_line_KeepBlank(t, raw, max_lines) ==
  LET stripped == Strip(raw)
      u == [t EXCEPT !.lines_scanned = @ + 1]
  IN IF max_lines # 0 /\ u.lines_scanned > max_lines
     THEN [u EXCEPT !.truncated = TRUE, !.done = TRUE]
     ELSE IF ~t.started
     THEN IF stripped = TOC_MARKER
          THEN [u EXCEPT !.started = TRUE, !.toc = Append(@, stripped)]
          ELSE u
     ELSE IF StartsWith(stripped, HASH2_PREFIX) /\ stripped # TOC_MARKER
     THEN [u EXCEPT !.done = TRUE]
     ELSE [u EXCEPT !.toc = Append(@, RStripNL(raw))]

\* read_toc_block_line with the budget test one line late
read_toc_block_line_OffByOne(t, raw, max_lines) ==
  LET stripped == Strip(raw)
      u == [t EXCEPT !.lines_scanned = @ + 1]
  IN IF max_lines # 0 /\ u.lines_scanned > max_lines + 1
     THEN [u EXCEPT !.truncated = TRUE, !.done = TRUE]
     ELSE IF ~t.started
     THEN IF stripped = TOC_MARKER
          THEN [u EXCEPT !.started = TRUE, !.toc = Append(@, stripped)]
          ELSE u
     ELSE IF StartsWith(stripped, HASH2_PREFIX) /\ stripped # TOC_MARKER
     THEN [u EXCEPT !.done = TRUE]
     ELSE IF stripped = <<>> THEN u
     ELSE [u EXCEPT !.toc = Append(@, RStripNL(raw))]

\* one iteration of the for loop, on the line raw taken from chain(carry, fh)
read_toc_block_line(t, raw, max_lines) ==
  LET stripped == Strip(raw)
      u == [t EXCEPT !.lines_scanned = @ + 1]
  IN IF max_lines # 0 /\ u.lines_scanned > max_lines
     THEN [u EXCEPT !.truncated = TRUE, !.done = TRUE]
     ELSE IF ~t.started
     THEN IF stripped = TOC_MARKER
          THEN [u EXCEPT !.started = TRUE, !.toc = Append(@, stripped)]
          ELSE u
     ELSE IF StartsWith(stripped, HASH2_PREFIX) /\ stripped # TOC_MARKER
     THEN [u EXCEPT !.done = TRUE]
     ELSE IF stripped = <<>> THEN u
     ELSE [u EXCEPT !.toc = Append(@, RStripNL(raw))]

(***************************************************************************)
(* State.                                                                  *)
(***************************************************************************)
VARIABLES
  lines,        \* the lines given to _parse_front_matter and _collect_headings
  start_index,  \* _collect_headings' start_index
  ip,           \* _parse_front_matter: data, idx, current_key, and how it ended
  hs,           \* _collect_headings: headings, pending_anchor
  hi,           \* _collect_headings: lines of the document already iterated
  fs,           \* the files: path -> lines (a path outside the domain is missing)
  paths,        \* skim_files' paths
  include_toc,  \* peek_markdown's include_toc
  max_lines,    \* peek_markdown's max_lines
  batch,        \* peek_markdown was called by skim_files (not by docmeta.main)
  pc,           \* where skim_files / peek_markdown stands
  pi,           \* skim_files: paths already iterated
  pos,          \* lines pulled from the open file's stream
  fm,           \* _parse_front_matter_stream's locals
  carry_i,      \* items chain(carry, fh) has taken from carry
  tc,           \* _read_toc_block's locals
  results,      \* skim_files' results (peek_markdown's return value, alone)
  reported,     \* paths printed to stderr as missing
  md_paths,     \* build_index: sorted(docs_root.glob("*.md"))
  bi,           \* build_index: documents already iterated
  entries,      \* build_index: entries
  bpc,          \* where build_index stands
  index_file,   \* the index file: None, or the index written
  index,        \* search_entries' index: its entries
  term,         \* search_entries' term
  se,           \* search_entries: entries already iterated
  sphase,       \* search_entries: the inner loop it is in
  sj,           \* search_entries: items of the inner loop already iterated
  sresults,     \* search_entries' results
  seen,         \* search_entries' seen
  slug_text,    \* the text given to _slugify
  slug_pc,      \* how many times _slugify has been applied
  slug_out,     \* what _slugify returned last
  san_text,     \* sanitize_file: text, the lines of the input file
  toc_depth,    \* sanitize_file's toc_depth
  san_stopwords, \* sanitize_file's stopwords
  san_pc,       \* where sanitize_file stands
  meta,         \* sanitize_file: meta
  rest,         \* sanitize_file: rest
  key_sections, \* sanitize_file: key_sections
  output        \* the output file: None, or the lines written

docVars == <<lines, start_index, ip, hs, hi>>

peekInputs == <<fs, paths, include_toc, max_lines, batch>>

peekVars == <<fs, paths, include_toc, max_lines, batch, pc, pi, pos, fm, carry_i, tc,
              results, reported>>

buildVars == <<md_paths, bi, entries, bpc, index_file>>

searchVars == <<index, term, se, sphase, sj, sresults, seen>>

slugVars == <<slug_text, slug_pc, slug_out>>

sanVars == <<san_text, toc_depth, san_stopwords, san_pc, meta, rest, key_sections, output>>

vars == <<docVars, peekVars, buildVars, searchVars, slugVars, sanVars>>

\* no document is being parsed by docindex
IdleDoc ==
  /\ lines = <<>>
  /\ start_index = 0
  /\ ip = ParseStart
  /\ hs = HeadingsStart
  /\ hi = 0

\* no file is being peeked
IdlePeek ==
  /\ fs = [q \in {} |-> <<>>]
  /\ paths = <<>>
  /\ include_toc = FALSE
  /\ max_lines = 0
  /\ batch = FALSE
  /\ pc = "idle"
  /\ pi = 0
  /\ pos = 0
  /\ fm = StreamStart
  /\ carry_i = 0
  /\ tc = TocStart
  /\ results = <<>>
  /\ reported = <<>>

\* build_index is not running
IdleBuild ==
  /\ md_paths = <<>>
  /\ bi = 0
  /\ entries = <<>>
  /\ bpc = "idle"
  /\ index_file = None

\* search_entries is not running
IdleSearch ==
  /\ index = <<>>
  /\ term = <<>>
  /\ se = 0
  /\ sphase = "idle"
  /\ sj = 0
  /\ sresults = <<>>
  /\ seen = {}

\* _slugify is not running
IdleSlug ==
  /\ slug_text = <<>>
  /\ slug_pc = "idle"
  /\ slug_out = <<>>

\* sanitize_file is not running
IdleSan ==
  /\ san_text = <<>>
  /\ toc_depth = 0
  /\ san_stopwords = {}
  /\ san_pc = "idle"
  /\ meta = EmptyDict
  /\ rest = <<>>
  /\ key_sections = <<>>
  /\ output = None

(***************************************************************************)
(* docindex._parse_front_matter and _collect_headings, line by line.       *)
(***************************************************************************)
\* while idx < len(lines): one iteration
ParseLine ==
  /\ HasHeader(lines)
  /\ ParseRunning(lines, ip)
  /\ ip' = parse_front_matter_line(ip, lines[ip.idx + 1])
  /\ UNCHANGED <<lines, start_index, hs, hi>>
  /\ UNCHANGED <<peekVars, buildVars, searchVars, slugVars, sanVars>>

\* for raw in iterator: one iteration
CollectLine ==
  /\ hi < Len(lines)
  /\ hs' = collect_headings_line(hs, lines[hi + 1])
  /\ hi' = hi + 1
  /\ UNCHANGED <<lines, start_index, ip>>
  /\ UNCHANGED <<peekVars, buildVars, searchVars, slugVars, sanVars>>

(***************************************************************************)
(* docmeta.peek_markdown, one pulled line at a time, and docindex.skim_files *)
(***************************************************************************)
\* the path being peeked
CurPath == paths[pi + 1]

\* the lines of the open file
CurFile == fs[CurPath]

\* next(fh): a line of a text file ends with its newline
NextLine == CurFile[pos + 1] \o <<NL>>

\* where peek_markdown goes once the front matter is read
AfterHeader == IF include_toc THEN "toc" ELSE "return"

\* try: first = next(fh), and the test of the first line
PeekFirst ==
  /\ pc = "first"
  /\ IF Len(CurFile) = 0
     THEN /\ pc' = AfterHeader
          /\ UNCHANGED <<pos, fm>>
     ELSE /\ pos' = pos + 1
          /\ IF Strip(NextLine) # DASHES
             THEN /\ fm' = [fm EXCEPT !.carry = Append(@, NextLine)]
                  /\ pc' = AfterHeader
             ELSE /\ fm' = fm
                  /\ pc' = "header"
  /\ UNCHANGED <<carry_i, tc, pi, results, reported>>
  /\ UNCHANGED peekInputs
  /\ UNCHANGED <<docVars, buildVars, searchVars, slugVars, sanVars>>

\* for raw in fh: one iteration of the header loop
PeekHeaderLine ==
  /\ pc = "header"
  /\ pos < Len(CurFile)
  /\ pos' = pos + 1
  /\ fm' = parse_front_matter_stream_line(fm, NextLine)
  /\ pc' = IF fm'.raised THEN "raised" ELSE IF fm'.done THEN AfterHeader ELSE "header"
  /\ UNCHANGED <<carry_i, tc, pi, results, reported>>
  /\ UNCHANGED peekInputs
  /\ UNCHANGED <<docVars, buildVars, searchVars, slugVars, sanVars>>

\* for raw in fh: the stream is exhausted before a closing ---
PeekHeaderEnd ==
  /\ pc = "header"
  /\ pos = Len(CurFile)
  /\ pc' = AfterHeader
  /\ UNCHANGED <<pos, fm, carry_i, tc, pi, results, reported>>
  /\ UNCHANGED peekInputs
  /\ UNCHANGED <<docVars, buildVars, searchVars, slugVars, sanVars>>

\* for raw in chain(carry, fh): one iteration of the TOC loop
PeekTocLine ==
  /\ pc = "toc"
  /\ IF carry_i < Len(fm.carry)
     THEN /\ tc' = read_toc_block_line(tc, fm.carry[carry_i + 1], max_lines)
          /\ carry_i' = carry_i + 1
          /\ pos' = pos
     ELSE /\ pos < Len(CurFile)
          /\ tc' = read_toc_block_line(tc, NextLine, max_lines)
          /\ pos' = pos + 1
          /\ carry_i' = carry_i
  /\ pc' = IF tc'.done THEN "return" ELSE "toc"
  /\ UNCHANGED <<fm, pi, results, reported>>
  /\ UNCHANGED peekInputs
  /\ UNCHANGED <<docVars, buildVars, searchVars, slugVars, sanVars>>

\* for raw in chain(carry, fh): carry and the stream are exhausted
PeekTocEnd ==
  /\ pc = "toc"
  /\ carry_i = Len(fm.carry)
  /\ pos = Len(CurFile)
  /\ pc' = "return"
  /\ UNCHANGED <<pos, fm, carry_i, tc, pi, results, reported>>
  /\ UNCHANGED peekInputs
  /\ UNCHANGED <<docVars, buildVars, searchVars, slugVars, sanVars>>

\* the dict peek_markdown returns
PeekResult ==
  [path |-> CurPath,
   has_front_matter |-> DOMAIN fm.data # {},
   front_matter |-> fm.data,
   front_matter_raw |-> fm.raw_lines,
   toc_found |-> tc.toc # <<>>,
   toc_truncated |-> tc.truncated,
   toc |-> IF include_toc THEN Some(tc.toc) ELSE None]

\* return {...}; in skim_files, results.append(info)
PeekReturn ==
  /\ pc = "return"
  /\ results' = Append(results, PeekResult)
  /\ IF batch
     THEN /\ pi' = pi + 1
          /\ pc' = "skim"
     ELSE /\ pi' = pi
          /\ pc' = "returned"
  /\ UNCHANGED <<pos, fm, carry_i, tc, reported>>
  /\ UNCHANGED peekInputs
  /\ UNCHANGED <<docVars, buildVars, searchVars, slugVars, sanVars>>

\* for path in paths: path.open succeeds
SkimOpen ==
  /\ pc = "skim"
  /\ pi < Len(paths)
  /\ CurPath \in DOMAIN fs
  /\ pc' = "first"
  /\ pos' = 0
  /\ fm' = StreamStart
  /\ carry_i' = 0
  /\ tc' = TocStart
  /\ UNCHANGED <<pi, results, reported>>
  /\ UNCHANGED peekInputs
  /\ UNCHANGED <<docVars, buildVars, searchVars, slugVars, sanVars>>

\* for path in paths: except FileNotFoundError
SkimMissing ==
  /\ pc = "skim"
  /\ pi < Len(paths)
  /\ CurPath \notin DOMAIN fs
  /\ reported' = Append(reported, CurPath)
  /\ pi' = pi + 1
  /\ UNCHANGED <<pc, pos, fm, carry_i, tc, results>>
  /\ UNCHANGED peekInputs
  /\ UNCHANGED <<docVars, buildVars, searchVars, slugVars, sanVars>>

\* return results
SkimReturn ==
  /\ pc = "skim"
  /\ pi = Len(paths)
  /\ pc' = "done"
  /\ UNCHANGED <<pi, pos, fm, carry_i, tc, results, reported>>
  /\ UNCHANGED peekInputs
  /\ UNCHANGED <<docVars, buildVars, searchVars, slugVars, sanVars>>

(***************************************************************************)
(* Documents of the model.                                                 *)
(***************************************************************************)
DEFAULT_MAX_LINES == 800

P_F == <<"f",".","m","d">>

L_KEY_SECTIONS == KEY_SECTIONS \o <<":">>

L_ITEM_X == <<" "," ","-"," ","x">>

L_ITEM_YZ == <<" "," ","-"," ","y",":"," ","z">>

L_TITLE == <<"t",":"," ","A">>

L_COUNT == <<"n",":"," ","1","2">>

L_WORD == <<"z","z">>

L_DASH_X == <<"-"," ","x">>

L_NESTED == <<" "," ","j",":"," ","v">>

HeaderPool == {L_KEY_SECTIONS, L_ITEM_X, L_ITEM_YZ, L_TITLE, L_COUNT, L_WORD,
               L_DASH_X, L_NESTED}

\* an opening ---, up to MaxHeader header lines, and a closing --- or none
HeaderDocs ==
  {<<DASHES>> \o h \o c : h \in SeqUpTo(HeaderPool, MaxHeader), c \in {<<>>, <<DASHES>>}}

(***************************************************************************)
(* The two front-matter parsers on one document.                           *)
(***************************************************************************)
InitParseIndex ==
  /\ IdleSlug
  /\ IdleSan
  /\ lines \in HeaderDocs
  /\ start_index = 0
  /\ ip = ParseStart
  /\ hs = HeadingsStart
  /\ hi = 0
  /\ IdlePeek
  /\ IdleBuild
  /\ IdleSearch

InitParsePeek ==
  /\ IdleSlug
  /\ IdleSan
  /\ IdleDoc
  /\ IdleBuild
  /\ IdleSearch
  /\ \E d \in HeaderDocs : fs = [q \in {P_F} |-> d]
  /\ paths = <<P_F>>
  /\ include_toc = FALSE
  /\ max_lines = DEFAULT_MAX_LINES
  /\ batch = FALSE
  /\ pc = "first"
  /\ pi = 0
  /\ pos = 0
  /\ fm = StreamStart
  /\ carry_i = 0
  /\ tc = TocStart
  /\ results = <<>>
  /\ reported = <<>>

InitParse == InitParseIndex \/ InitParsePeek

NextParse == ParseLine \/ PeekFirst \/ PeekHeaderLine \/ PeekHeaderEnd \/ PeekReturn

SpecParse == InitParse /\ [][NextParse]_vars

\* C1: on every document whose first line is ---, _parse_front_matter and
\* _parse_front_matter_stream return a mapping and do not raise, also when a
\* list item follows a key holding a non-empty scalar.
C1_ParsersNeverRaise == ~ip.raised /\ pc # "raised"


(***************************************************************************)
(* C2: the section 6 header format, stated on the lines of the document.   *)
(***************************************************************************)
IsItemLine(l) == StartsWith(l, ITEM_PREFIX)

\* an unindented key: value line with a key
IsKeyLine(l) ==
  /\ ~IsItemLine(l)
  /\ HasChar(l, ":")
  /\ Head(l) # " "
  /\ Strip(SplitHead(l, ":")) # <<>>

KeyOf(l) == Strip(SplitHead(l, ":"))

ValueOf(l) == Strip(SplitTail(l, ":"))

\* opened and closed by ---, every line between a key line or an item line
\* of the list a key with an empty value opens, and no key twice
WellFormedHeader(doc) ==
  /\ Len(doc) >= 2
  /\ doc[1] = DASHES
  /\ doc[Len(doc)] = DASHES
  /\ \A i \in 2..(Len(doc) - 1) :
       \/ IsKeyLine(doc[i])
       \/ /\ IsItemLine(doc[i])
          /\ i > 2
          /\ \/ IsItemLine(doc[i - 1])
             \/ IsKeyLine(doc[i - 1]) /\ ValueOf(doc[i - 1]) = <<>>
  /\ \A i, j \in 2..(Len(doc) - 1) :
       (i # j /\ IsKeyLine(doc[i]) /\ IsKeyLine(doc[j])) => KeyOf(doc[i]) # KeyOf(doc[j])

\* the document holds the line key_sections:
HasKeySections(doc) ==
  \E i \in 2..(Len(doc) - 1) :
    IsKeyLine(doc[i]) /\ KeyOf(doc[i]) = KEY_SECTIONS /\ ValueOf(doc[i]) = <<>>

KeySectionsAt(doc) ==
  CHOOSE i \in 2..(Len(doc) - 1) :
    IsKeyLine(doc[i]) /\ KeyOf(doc[i]) = KEY_SECTIONS /\ ValueOf(doc[i]) = <<>>

\* the item lines that follow the line key_sections:
KeySectionLines(doc) ==
  LET k == KeySectionsAt(doc)
      n == CHOOSE m \in 0..(Len(doc) - k) :
             /\ \A j \in 1..m : IsItemLine(doc[k + j])
             /\ ~IsItemLine(doc[k + m + 1])
  IN SubSeq(doc, k + 1, k + n)

\* the item of a line "  - item"
ItemOf(l) == Strip(From(l, Len(ITEM_PREFIX)))

\* the items written back, one "  - item" line each
WriteItems(items) == [i \in 1..Len(items) |-> ITEM_PREFIX \o items[i]]

\* _parse_front_matter has returned on a well-formed header with key_sections:
ParsedWellFormed ==
  /\ HasHeader(lines)
  /\ ~ParseRunning(lines, ip)
  /\ WellFormedHeader(lines)
  /\ HasKeySections(lines)

\* C2: on a well-formed, closed header whose key_sections: line is followed by
\* n item lines, _parse_front_matter returns key_sections as exactly those n
\* items in their order, and writing them back as "  - item" lines gives the
\* original lines.
C2_KeySectionsRoundTrip ==
  ParsedWellFormed =>
    /\ ~ip.raised
    /\ ip.done
    /\ KEY_SECTIONS \in DOMAIN ip.data
    /\ ip.data[KEY_SECTIONS].t = "list"
    /\ ip.data[KEY_SECTIONS].v = [i \in 1..Len(KeySectionLines(lines)) |->
                                    ItemOf(KeySectionLines(lines)[i])]
    /\ WriteItems(ip.data[KEY_SECTIONS].v) = KeySectionLines(lines)

\* a parsed well-formed header whose key_sections holds two different items
C2_Witness ==
  /\ ParsedWellFormed
  /\ Len(KeySectionLines(lines)) = 2
  /\ KeySectionLines(lines)[1] # KeySectionLines(lines)[2]
  /\ ip.data[KEY_SECTIONS].v = <<ItemOf(L_ITEM_YZ), ItemOf(L_ITEM_X)>>

(***************************************************************************)
(* The heading extractor on the lines of one document.                     *)
(***************************************************************************)
L_ANCHOR_M == ANCHOR_OPEN \o <<"m">> \o ANCHOR_CLOSE

L_ANCHOR_Q == ANCHOR_OPEN \o <<"q">> \o ANCHOR_CLOSE

L_H2 == <<"#","#"," ","A","b">>

L_H1 == <<"#"," ","C","-","d">>

L_HASH == <<"#">>

BodyPool == {L_ANCHOR_M, L_ANCHOR_Q, L_H2, L_H1, L_HASH, L_WORD}

InitHeadings ==
  /\ IdleSlug
  /\ IdleSan
  /\ lines \in SeqUpTo(BodyPool, MaxBody)
  /\ start_index \in {0, 1}
  /\ ip = ParseStart
  /\ hs = HeadingsStart
  /\ hi = start_index
  /\ IdlePeek
  /\ IdleBuild
  /\ IdleSearch

NextHeadings == CollectLine

SpecHeadings == InitHeadings /\ [][NextHeadings]_vars

\* the line is an anchor marker
IsMarkerLine(l) == AnchorMatches(Strip(l))

\* the line is a heading: #s and then a text
IsHeadingLine(l) ==
  /\ ~IsMarkerLine(l)
  /\ StartsWith(LStrip(l), <<"#">>)
  /\ Strip(LStripSet(LStrip(l), {"#"})) # <<>>

\* the positions of the heading lines among the lines iterated so far
HeadingPositions == {i \in (start_index + 1)..hi : IsHeadingLine(lines[i])}

\* the position of the k-th heading line
HeadingPosition(k) ==
  CHOOSE i \in HeadingPositions : Cardinality({j \in HeadingPositions : j <= i}) = k

\* a marker line lies between the (k-1)-th and the k-th heading line
MarkerBefore(k) ==
  \E i \in (HeadingPosition(k - 1) + 1)..(HeadingPosition(k) - 1) : IsMarkerLine(lines[i])

\* C5: a heading that follows an earlier heading with no anchor marker between
\* the two gets the slug of its own text as anchor, whatever anchor the earlier
\* heading took; one record per heading line, in order.
C5_AnchorBindsNextHeadingOnly ==
  /\ Len(hs.headings) = Cardinality(HeadingPositions)
  /\ \A k \in 2..Len(hs.headings) :
       ~MarkerBefore(k) => hs.headings[k].anchor = slugify(hs.headings[k].text)

\* a heading took a marker's id and the next heading, with no marker before
\* it, has its own slug
C5_Witness ==
  /\ hi = Len(lines)
  /\ Len(hs.headings) >= 2
  /\ hs.headings[1].anchor = <<"m">>
  /\ ~MarkerBefore(2)
  /\ hs.headings[2].anchor = <<"c","-","d">>


(***************************************************************************)
(* peek_markdown on one file (docmeta.main).                               *)
(***************************************************************************)
L_TOC_PADDED == <<" ">> \o TOC_MARKER

L_ENTRY == <<"-"," ","a">>

L_BLANK == <<>>

L_NEXT_H2 == <<"#","#"," ","X">>

TocPool == {TOC_MARKER, L_TOC_PADDED, L_ENTRY, L_BLANK, L_NEXT_H2}

\* no front matter, a closed header, a header without closing ---
Fronts == {<<>>, <<DASHES, L_TITLE, DASHES>>, <<DASHES, L_TITLE>>}

InitPeek ==
  /\ IdleSlug
  /\ IdleSan
  /\ IdleDoc
  /\ IdleBuild
  /\ IdleSearch
  /\ \E front \in Fronts, body \in SeqUpTo(TocPool, MaxToc) :
       fs = [q \in {P_F} |-> front \o body]
  /\ paths = <<P_F>>
  /\ include_toc \in BOOLEAN
  /\ max_lines \in IF include_toc THEN (0 - 1)..MaxBudget ELSE {DEFAULT_MAX_LINES}
  /\ batch = FALSE
  /\ pc = "first"
  /\ pi = 0
  /\ pos = 0
  /\ fm = StreamStart
  /\ carry_i = 0
  /\ tc = TocStart
  /\ results = <<>>
  /\ reported = <<>>

NextPeek ==
  \/ PeekFirst
  \/ PeekHeaderLine
  \/ PeekHeaderEnd
  \/ PeekTocLine
  \/ PeekTocEnd
  \/ PeekReturn

SpecPeek == InitPeek /\ [][NextPeek]_vars

\* the file has front matter: its first line is ---
FileHasHeader(file) == file # <<>> /\ Strip(file[1]) = DASHES

\* the file's front matter is closed by a second --- line
HeaderClosed(file) ==
  FileHasHeader(file) /\ \E i \in 2..Len(file) : Strip(file[i]) = DASHES

\* the number of lines of the front matter, both --- lines included: none
\* without front matter, the whole file when no --- closes it
HeaderEnd(file) ==
  IF ~FileHasHeader(file) THEN 0
  ELSE IF HeaderClosed(file)
  THEN CHOOSE i \in 2..Len(file) :
         Strip(file[i]) = DASHES /\ \A j \in 2..(i - 1) : Strip(file[j]) # DASHES
  ELSE Len(file)

\* the lines after the front matter
AfterFront == From(CurFile, HeaderEnd(CurFile))

\* how many of the lines after the front matter a budget of n lets the scan
\* process: all of them when n = 0
Budget(n) ==
  IF n = 0 THEN Len(AfterFront)
  ELSE IF n < 0 THEN 0
  ELSE Min(n, Len(AfterFront))

IsTocMarker(l) == Strip(l) = TOC_MARKER

\* the positions, after the front matter, of the marker lines
MarkerPositions == {i \in 1..Len(AfterFront) : IsTocMarker(AfterFront[i])}

FirstMarker == CHOOSE i \in MarkerPositions : \A j \in MarkerPositions : i <= j

\* the line begins, once trimmed, with "## "
BeginsH2(l) == StartsWith(Strip(l), HASH2_PREFIX)

\* the line ends a started TOC block
EndsToc(l) == BeginsH2(l) /\ ~IsTocMarker(l)

\* the first position after position m of a line satisfying E(_), or one past
\* the last line
FirstAfter(m, E(_)) ==
  LET hits == {i \in (m + 1)..Len(AfterFront) : E(AfterFront[i])}
  IN IF hits = {} THEN Len(AfterFront) + 1
     ELSE CHOOSE i \in hits : \A j \in hits : i <= j

RECURSIVE NonBlank(_)
\* the lines of a sequence that are not blank, in order
NonBlank(ls) ==
  IF ls = <<>> THEN <<>>
  ELSE IF Strip(Head(ls)) = <<>> THEN NonBlank(Tail(ls))
  ELSE <<Head(ls)>> \o NonBlank(Tail(ls))

\* the marker and the non-blank lines from the first marker up to the first
\* later line satisfying E(_)
TocBlock(E(_)) ==
  IF MarkerPositions = {} THEN <<>>
  ELSE <<TOC_MARKER>> \o
       NonBlank(SubSeq(AfterFront, FirstMarker + 1, FirstAfter(FirstMarker, E) - 1))

\* the scan of the TOC is going on or over
InTocScan == include_toc /\ pc \in {"toc", "return", "returned"}

\* the lines the TOC loop has processed: the iteration that finds the budget
\* spent processes none
Processed == tc.lines_scanned - (IF tc.truncated THEN 1 ELSE 0)

\* the budget cuts the scan off: there is a line beyond it, and the block
\* has not ended within it
CutOff ==
  /\ max_lines >= 1
  /\ Len(AfterFront) > max_lines
  /\ \/ \A i \in 1..max_lines : ~IsTocMarker(AfterFront[i])
     \/ FirstAfter(FirstMarker, EndsToc) > max_lines

\* C3: for max_lines >= 1, _read_toc_block processes at most max_lines lines
\* after the front matter, every line of the toc is one of those first
\* max_lines lines, and truncated is set exactly when the budget, not the end
\* of the block or of the input, stopped the scan.
C3_TocBudget ==
  (InTocScan /\ max_lines >= 1) =>
    /\ Processed <= max_lines
    /\ \A j \in 1..Len(tc.toc) :
         \E i \in 1..Budget(max_lines) :
           tc.toc[j] \in {AfterFront[i], Strip(AfterFront[i])}
    /\ pc \in {"return", "returned"} => (tc.truncated <=> CutOff)

\* a scan the budget cut off inside a started block
C3_Witness ==
  /\ pc = "returned"
  /\ include_toc
  /\ max_lines = 2
  /\ tc.truncated
  /\ tc.toc = <<TOC_MARKER, L_ENTRY>>
  /\ Len(AfterFront) >= 4

\* peek_markdown has returned a toc of a scan that was not truncated
ReturnedToc == pc = "returned" /\ include_toc /\ ~results[1].toc_truncated

\* the statement of C4 about the toc, with E(_) the lines that end the block
TocAsStated(E(_)) ==
  ReturnedToc =>
    /\ results[1].toc = Some(TocBlock(E))
    /\ (results[1].toc = Some(<<>>) /\ ~results[1].toc_found)
         <=> \A i \in 1..Budget(max_lines) : ~IsTocMarker(AfterFront[i])

PulledAfterFront == pos - HeaderEnd(CurFile)

\* without include_toc no line is pulled after the front matter (after the
\* first line, when there is none)
NoBodyRead ==
  ~include_toc =>
    IF FileHasHeader(CurFile) THEN pos <= HeaderEnd(CurFile) ELSE pos <= 1

AsciiOrder == <<NL, " ", "\"", "#", "-", ".", "/">> \o DigitSeq \o <<":", "<", "=", ">">>
              \o UpperSeq \o <<"[", "]", "_">> \o LowerSeq

CharCode(c) == CHOOSE i \in 1..Len(AsciiOrder) : AsciiOrder[i] = c

\* a < b for two str
StrLess(a, b) ==
  \E i \in 1..(Len(b)) :
    /\ i <= Len(a) + 1
    /\ \A j \in 1..(i - 1) : a[j] = b[j]
    /\ \/ i = Len(a) + 1
       \/ CharCode(a[i]) < CharCode(b[i])

RECURSIVE Sorted(_)
\* sorted(S)
Sorted(S) ==
  IF S = {} THEN <<>>
  ELSE LET least == CHOOSE x \in S : \A y \in S : x = y \/ StrLess(x, y)
       IN <<least>> \o Sorted(S \ {least})

\* s.endswith(suf)
EndsWith(s, suf) == Len(s) >= Len(suf) /\ SubSeq(s, Len(s) - Len(suf) + 1, Len(s)) = suf

MD_SUFFIX == <<".","m","d">>

\* docs_root.glob("*.md")
GlobMd == {q \in DOMAIN fs : EndsWith(q, MD_SUFFIX)}

\* md_path.stem: the name without its last suffix
Stem(q) ==
  LET dots == {i \in 2..Len(q) : q[i] = "."}
  IN IF dots = {} THEN q
     ELSE SubSeq(q, 1, (CHOOSE i \in dots : \A j \in dots : j <= i) - 1)

K_TITLE == <<"t","i","t","l","e">>

K_DOCSET_VERSION == <<"d","o","c","s","e","t","_","v","e","r","s","i","o","n">>

K_EXPORTED_AT == <<"e","x","p","o","r","t","e","d","_","a","t">>

K_DOC_COUNT == <<"d","o","c","_","c","o","u","n","t">>

K_FILE_SIZE == <<"f","i","l","e","_","s","i","z","e">>

UNKNOWN == <<"u","n","k","n","o","w","n">>

\* front_matter.get(key, default)
FmGet(data, key, default) == IF key \in DOMAIN data THEN data[key] ELSE default

\* the dict appended to entries
DocEntry(md_path, data, headings) ==
  [path |-> md_path,
   title |-> FmGet(data, K_TITLE, VStr(Stem(md_path))),
   docset_version |-> FmGet(data, K_DOCSET_VERSION, VStr(UNKNOWN)),
   exported_at |-> FmGet(data, K_EXPORTED_AT, VStr(<<>>)),
   doc_count |-> FmGet(data, K_DOC_COUNT, VInt(0)),
   file_size |-> FmGet(data, K_FILE_SIZE, VInt(0)),
   key_sections |-> FmGet(data, KEY_SECTIONS, VList(<<>>)),
   headings |-> headings]

\* the values datetime.now can format to
Clock == {<<"T","1">>, <<"T","2">>}

\* str(docs_root)
DOCS_ROOT == <<"d","o","c","s">>

\* sorted(docs_root.glob("*.md"))
BuildStart ==
  /\ bpc = "start"
  /\ md_paths' = Sorted(GlobMd)
  /\ bpc' = "loop"
  /\ UNCHANGED <<bi, entries, index_file>>
  /\ UNCHANGED <<docVars, peekVars, searchVars, slugVars, sanVars>>

\* for md_path in ...: one iteration; a raising _parse_front_matter ends the call
BuildDoc ==
  /\ bpc = "loop"
  /\ bi < Len(md_paths)
  /\ LET md_path == md_paths[bi + 1]
         r == parse_front_matter(fs[md_path])
     IN IF r.raised
        THEN /\ bpc' = "raised"
             /\ UNCHANGED <<bi, entries>>
        ELSE /\ bpc' = bpc
             /\ bi' = bi + 1
             /\ entries' = IF ~r.some \/ DOMAIN r.data = {} THEN entries
                           ELSE Append(entries,
                                  DocEntry(md_path, r.data,
                                           collect_headings(fs[md_path], r.idx)))
  /\ UNCHANGED <<md_paths, index_file>>
  /\ UNCHANGED <<docVars, peekVars, searchVars, slugVars, sanVars>>

\* index_path.write_text(json.dumps(index)); return index
BuildWrite ==
  /\ bpc = "loop"
  /\ bi = Len(md_paths)
  /\ \E now \in Clock :
       index_file' = Some([generated_at |-> now, docs_root |-> DOCS_ROOT,
                           entries |-> entries])
  /\ bpc' = "returned"
  /\ UNCHANGED <<md_paths, bi, entries>>
  /\ UNCHANGED <<docVars, peekVars, searchVars, slugVars, sanVars>>

P_A == <<"a",".","m","d">>

P_B == <<"b",".","m","d">>

P_UPPER == <<"B",".","m","d">>

P_TXT == <<"c",".","t","x","t">>

D_NO_HEADER == <<L_H1>>

D_EMPTY_HEADER == <<DASHES, DASHES, L_H2>>

D_TITLED == <<DASHES, K_TITLE \o <<":"," ","A">>, L_KEY_SECTIONS, L_ITEM_X, DASHES,
              L_ANCHOR_M, L_H2, L_H1>>

D_SCALAR_ITEM == <<DASHES, L_TITLE, L_ITEM_X, DASHES, L_H2>>

BuildDocs == {D_NO_HEADER, D_EMPTY_HEADER, D_TITLED, D_SCALAR_ITEM}

\* the directories: every choice of files among the paths
Directories ==
  UNION {[S -> BuildDocs] : S \in SUBSET {P_A, P_B, P_UPPER, P_TXT}}

InitBuild ==
  /\ IdleSlug
  /\ IdleSan
  /\ IdleDoc
  /\ IdleSearch
  /\ fs \in Directories
  /\ paths = <<>>
  /\ include_toc = FALSE
  /\ max_lines = 0
  /\ batch = FALSE
  /\ pc = "idle"
  /\ pi = 0
  /\ pos = 0
  /\ fm = StreamStart
  /\ carry_i = 0
  /\ tc = TocStart
  /\ results = <<>>
  /\ reported = <<>>
  /\ md_paths = <<>>
  /\ bi = 0
  /\ entries = <<>>
  /\ bpc = "start"
  /\ index_file = None

NextBuild == BuildStart \/ BuildDoc \/ BuildWrite

SpecBuild == InitBuild /\ [][NextBuild]_vars

\* C6: build_index does not raise, and the index it returns holds exactly one
\* entry for every *.md document whose first line is ---, none for the other
\* documents, in ascending path order.
C6_OneEntryPerHeaderDocument ==
  /\ bpc # "raised"
  /\ bpc = "returned" =>
       [i \in 1..Len(index_file[1].entries) |-> index_file[1].entries[i].path]
         = Sorted({q \in GlobMd : FileHasHeader(fs[q])})

(***************************************************************************)
(* docindex.search_entries, one heading or key section at a time.          *)
(***************************************************************************)
\* the character U+2014 of the result line
EM_DASH == "U+2014"

\* term_lower in text.lower()
TermMatches_CaseSensitive(t, text) == Contains(text, t)

\* term_lower in text.lower()
TermMatches(t, text) == Contains(Lower(text), Lower(t))

\* f"{path}#{anchor}"
SeenKey(path, anchor) == path \o <<"#">> \o anchor

\* f"{title}: {text} — {path}#{anchor}"
FormatLine(title, text, path, anchor) ==
  title \o <<":", " ">> \o text \o <<" ", EM_DASH, " ">> \o path \o <<"#">> \o anchor

\* a result line, with the values it was formatted from
ResultLine(title, text, path, anchor) ==
  [line |-> FormatLine(title, text, path, anchor),
   title |-> title, text |-> text, path |-> path, anchor |-> anchor]

\* if key in seen: continue; seen.add(key); results.append(...)
SearchHit(title, text, path, anchor) ==
  IF SeenKey(path, anchor) \in seen
  THEN UNCHANGED <<seen, sresults>>
  ELSE /\ seen' = seen \cup {SeenKey(path, anchor)}
       /\ sresults' = Append(sresults, ResultLine(title, text, path, anchor))

CurEntry == index[se + 1]

\* for entry in index.get("entries", []): the next entry
SearchEntry ==
  /\ sphase = "entries"
  /\ se < Len(index)
  /\ sphase' = "headings"
  /\ sj' = 0
  /\ UNCHANGED <<index, term, se, sresults, seen>>
  /\ UNCHANGED <<docVars, peekVars, buildVars, slugVars, sanVars>>

\* for heading in entry.get("headings", []): one iteration
SearchHeading ==
  /\ sphase = "headings"
  /\ sj < Len(CurEntry.headings)
  /\ LET heading == CurEntry.headings[sj + 1]
     IN IF TermMatches(term, heading.text)
        THEN SearchHit(CurEntry.title, heading.text, CurEntry.path, heading.anchor)
        ELSE UNCHANGED <<seen, sresults>>
  /\ sj' = sj + 1
  /\ UNCHANGED <<index, term, se, sphase>>
  /\ UNCHANGED <<docVars, peekVars, buildVars, slugVars, sanVars>>

\* the headings of the entry are exhausted
SearchHeadingsEnd ==
  /\ sphase = "headings"
  /\ sj = Len(CurEntry.headings)
  /\ sphase' = "sections"
  /\ sj' = 0
  /\ UNCHANGED <<index, term, se, sresults, seen>>
  /\ UNCHANGED <<docVars, peekVars, buildVars, slugVars, sanVars>>

\* for section in entry.get("key_sections", []): one iteration
SearchSection ==
  /\ sphase = "sections"
  /\ sj < Len(CurEntry.key_sections)
  /\ LET section == CurEntry.key_sections[sj + 1]
     IN IF TermMatches(term, section)
        THEN SearchHit(CurEntry.title, section, CurEntry.path, slugify(section))
        ELSE UNCHANGED <<seen, sresults>>
  /\ sj' = sj + 1
  /\ UNCHANGED <<index, term, se, sphase>>
  /\ UNCHANGED <<docVars, peekVars, buildVars, slugVars, sanVars>>

\* the key sections of the entry are exhausted
SearchSectionsEnd ==
  /\ sphase = "sections"
  /\ sj = Len(CurEntry.key_sections)
  /\ se' = se + 1
  /\ sphase' = "entries"
  /\ sj' = 0
  /\ UNCHANGED <<index, term, sresults, seen>>
  /\ UNCHANGED <<docVars, peekVars, buildVars, slugVars, sanVars>>

\* return results
SearchReturn ==
  /\ sphase = "entries"
  /\ se = Len(index)
  /\ sphase' = "returned"
  /\ UNCHANGED <<index, term, se, sj, sresults, seen>>
  /\ UNCHANGED <<docVars, peekVars, buildVars, slugVars, sanVars>>

(***************************************************************************)
(* Searched indexes.                                                       *)
(***************************************************************************)
T_FO == <<"F","o">>

T_FOB == <<"F","o","b">>

T_BA == <<"B","a">>

Heading(text, anchor) == [text |-> text, anchor |-> anchor, level |-> 2]

\* a heading and a key section with the same anchor, and a heading whose
\* explicit anchor holds a #
E_SAME == [path |-> <<"a">>, title |-> <<"A">>,
           headings |-> <<Heading(T_FO, <<"f","o">>), Heading(T_FOB, <<"b","#","c">>)>>,
           key_sections |-> <<T_FO, T_BA>>]

\* a heading with an explicit anchor and a key section of the same text
E_DIFFERENT == [path |-> <<"a">>, title |-> <<"A">>,
                headings |-> <<Heading(T_FO, <<"x">>)>>,
                key_sections |-> <<T_FO>>]

\* a path that holds a #
E_HASH_PATH == [path |-> <<"a","#","b">>, title |-> <<"B">>,
                headings |-> <<Heading(T_FO, <<"c">>)>>,
                key_sections |-> <<>>]

\* the same heading twice, and a key section whose slug differs from it
E_TWICE == [path |-> <<"d">>, title |-> <<"D">>,
            headings |-> <<Heading(T_BA, <<"b","a">>), Heading(T_BA, <<"b","a">>)>>,
            key_sections |-> <<<<"f","o","/">>>>]

EntryPool == {E_SAME, E_DIFFERENT, E_HASH_PATH, E_TWICE}

Terms == {<<"f","o">>, <<"F","O">>, <<"b","a">>, <<"z","z">>}

InitSearch ==
  /\ IdleSlug
  /\ IdleSan
  /\ IdleDoc
  /\ IdlePeek
  /\ IdleBuild
  /\ index \in SeqUpTo(EntryPool, MaxEntries)
  /\ term \in Terms
  /\ se = 0
  /\ sphase = "entries"
  /\ sj = 0
  /\ sresults = <<>>
  /\ seen = {}

NextSearch ==
  \/ SearchEntry
  \/ SearchHeading
  \/ SearchHeadingsEnd
  \/ SearchSection
  \/ SearchSectionsEnd
  \/ SearchReturn

SpecSearch == InitSearch /\ [][NextSearch]_vars

\* the text contains the term, both in lower case
HoldsTerm(text) ==
  \E i \in 0..(Len(text) - Len(term)) :
    Lower(SubSeq(text, i + 1, i + Len(term))) = Lower(term)

RECURSIVE HeadingMatches(_, _)
\* the lines of the headings of entry e from the k-th on that hold the term
HeadingMatches(e, k) ==
  IF k > Len(e.headings) THEN <<>>
  ELSE (IF HoldsTerm(e.headings[k].text)
        THEN <<ResultLine(e.title, e.headings[k].text, e.path, e.headings[k].anchor)>>
        ELSE <<>>) \o HeadingMatches(e, k + 1)

RECURSIVE SectionMatches(_, _)
\* the lines of the key sections of entry e from the k-th on that hold the term
SectionMatches(e, k) ==
  IF k > Len(e.key_sections) THEN <<>>
  ELSE (IF HoldsTerm(e.key_sections[k])
        THEN <<ResultLine(e.title, e.key_sections[k], e.path, slugify(e.key_sections[k]))>>
        ELSE <<>>) \o SectionMatches(e, k + 1)

RECURSIVE AllMatches(_)
\* a line for every match of the index from entry k on: entry by entry, the
\* headings before the key sections
AllMatches(k) ==
  IF k > Len(index) THEN <<>>
  ELSE HeadingMatches(index[k], 1) \o SectionMatches(index[k], 1) \o AllMatches(k + 1)

RECURSIVE IsSubsequence(_, _)
\* a is b with some elements left out
IsSubsequence(a, b) ==
  IF a = <<>> THEN TRUE
  ELSE IF b = <<>> THEN FALSE
  ELSE IF Head(a) = Head(b) THEN IsSubsequence(Tail(a), Tail(b))
  ELSE IsSubsequence(a, Tail(b))

\* C7: no two result lines have the same (path, anchor) pair, and every
\* match has a result line with its (path, anchor) pair, so that two matches
\* with different pairs give two lines.
C7_OneLinePerPathAnchor ==
  sphase = "returned" =>
    /\ \A i, j \in 1..Len(sresults) :
         (sresults[i].path = sresults[j].path /\ sresults[i].anchor = sresults[j].anchor)
           => i = j
    /\ \A k \in 1..Len(AllMatches(1)) :
         \E i \in 1..Len(sresults) :
           /\ sresults[i].path = AllMatches(1)[k].path
           /\ sresults[i].anchor = AllMatches(1)[k].anchor

\* C8: every line of search_entries is the line of a heading text or key
\* section that holds the term case-insensitively, the lines keep the order
\* of the entries, then the headings, then the key sections, and the result
\* is not empty when something holds the term.
C8_MatchesInOrder ==
  /\ IsSubsequence(sresults, AllMatches(1))
  /\ sphase = "returned" => (AllMatches(1) # <<>> => sresults # <<>>)

\* a term in upper case found in a heading and a key section of one entry and
\* in a heading of the next
C8_Witness ==
  /\ sphase = "returned"
  /\ term = <<"F","O">>
  /\ index = <<E_DIFFERENT, E_HASH_PATH>>
  /\ Len(sresults) = 3
  /\ sresults[2].anchor = <<"f","o">>
  /\ sresults[3].path = <<"a","#","b">>

(***************************************************************************)
(* docindex.skim_files over a sequence of paths.                           *)
(***************************************************************************)
P_MISSING == <<"n","o",".","m","d">>


D_UNCLOSED == <<DASHES, L_TITLE>>

D_TOC == <<DASHES, L_TITLE, DASHES, TOC_MARKER, L_ENTRY, L_NEXT_H2, L_WORD>>

\* the files of the skimmed directory; P_MISSING is not among them
SkimFiles ==
  [q \in {P_A, P_B, P_UPPER, P_TXT} |->
     IF q = P_A THEN D_TOC
     ELSE IF q = P_B THEN D_NO_HEADER
     ELSE IF q = P_UPPER THEN D_SCALAR_ITEM
     ELSE D_UNCLOSED]

InitSkim ==
  /\ IdleSlug
  /\ IdleSan
  /\ IdleDoc
  /\ IdleBuild
  /\ IdleSearch
  /\ fs = SkimFiles
  /\ paths \in SeqUpTo(DOMAIN SkimFiles \cup {P_MISSING}, MaxPaths)
  /\ include_toc \in BOOLEAN
  /\ max_lines = DEFAULT_MAX_LINES
  /\ batch = TRUE
  /\ pc = "skim"
  /\ pi = 0
  /\ pos = 0
  /\ fm = StreamStart
  /\ carry_i = 0
  /\ tc = TocStart
  /\ results = <<>>
  /\ reported = <<>>

NextSkim ==
  \/ SkimOpen
  \/ SkimMissing
  \/ SkimReturn
  \/ PeekFirst
  \/ PeekHeaderLine
  \/ PeekHeaderEnd
  \/ PeekTocLine
  \/ PeekTocEnd
  \/ PeekReturn

SpecSkim == InitSkim /\ [][NextSkim]_vars

RECURSIVE SelectPaths(_, _)
\* the paths of ps, in order, that exist (want) or are missing (not want)
SelectPaths(ps, want) ==
  IF ps = <<>> THEN <<>>
  ELSE (IF (Head(ps) \in DOMAIN fs) = want THEN <<Head(ps)>> ELSE <<>>)
       \o SelectPaths(Tail(ps), want)

\* C10: skim_files does not abort, and returns one PeekResult for each path
\* that exists, in input order, each missing path being reported and skipped.
C10_SkimToleratesMissing ==
  /\ pc # "raised"
  /\ pc = "done" =>
       /\ [i \in 1..Len(results) |-> results[i].path] = SelectPaths(paths, TRUE)
       /\ reported = SelectPaths(paths, FALSE)

(***************************************************************************)
(* docindex._slugify applied to a text, and again to what it returned.     *)
(***************************************************************************)
\* slug = _slugify(text)
Slugify ==
  /\ slug_pc = "start"
  /\ slug_out' = slugify(slug_text)
  /\ slug_pc' = "once"
  /\ UNCHANGED slug_text
  /\ UNCHANGED <<docVars, peekVars, buildVars, searchVars, sanVars>>

\* slug = _slugify(slug)
SlugifyAgain ==
  /\ slug_pc = "once"
  /\ slug_out' = slugify(slug_out)
  /\ slug_pc' = "twice"
  /\ UNCHANGED slug_text
  /\ UNCHANGED <<docVars, peekVars, buildVars, searchVars, sanVars>>

\* the characters of the texts: letters of both cases, a digit, the three
\* characters kept as -, a dropped character, and a letter whose lower case
\* has two characters
SlugAlphabet == {"A", "b", "1", "-", "/", "_", " ", I_DOT}

InitSlug ==
  /\ IdleDoc
  /\ IdlePeek
  /\ IdleBuild
  /\ IdleSearch
  /\ IdleSan
  /\ slug_text \in SeqUpTo(SlugAlphabet, MaxSlug)
  /\ slug_pc = "start"
  /\ slug_out = <<>>

NextSlug == Slugify \/ SlugifyAgain

SpecSlug == InitSlug /\ [][NextSlug]_vars

\* C13: _slugify applied to what _slugify returned gives the same str, the
\* fallback value section included.
C13_SlugifyIdempotent == slug_pc = "twice" => slug_out = slugify(slug_text)

(***************************************************************************)
(* docset_sanitize: its own front-matter parser.                           *)
(***************************************************************************)
STOPWORDS_DEFAULT ==
  {<<"r","e","t","u","r","n"," ","v","a","l","u","e">>,
   <<"d","i","s","c","u","s","s","i","o","n">>,
   <<"s","p","e","c","i","a","l"," ","c","o","n","s","i","d","e","r","a","t","i","o","n","s">>,
   <<"p","a","r","a","m","e","t","e","r","s">>,
   <<"s","e","e"," ","a","l","s","o">>}

\* main: stopwords = {s.lower() for s in STOPWORDS_DEFAULT}, no --stopword given
MainStopwords == {Lower(s) : s \in STOPWORDS_DEFAULT}

OVERVIEW == <<"o","v","e","r","v","i","e","w">>

\* the index in lines (from 1) of the first line after the first whose strip()
\* is ---, or 0: the for ... else of parse_front_matter
SanClosing(ls) ==
  LET closing == {i \in 2..Len(ls) : Strip(ls[i]) = DASHES}
  IN IF closing = {} THEN 0 ELSE CHOOSE i \in closing : \A j \in closing : i <= j

\* fm_lines
SanFmLines(ls) ==
  IF SanClosing(ls) = 0 THEN Tail(ls)
  ELSE SubSeq(ls, 2, SanClosing(ls) - 1)

\* rest
SanRest(ls) ==
  IF SanClosing(ls) = 0 THEN <<>> ELSE From(ls, SanClosing(ls))

\* the state of the loop over fm_lines before its first iteration
SanParseStart == [data |-> EmptyDict, key |-> None, raised |-> FALSE]

\* for raw in fm_lines: one iteration
san_parse_line(p, raw) ==
  LET stripped == Strip(raw)
      appended == SetDefaultAppend(p.data, p.key[1], From(stripped, 2))
  IN IF StartsWith(stripped, DASH_PREFIX) /\ Truthy(p.key)
     THEN [p EXCEPT !.data = appended.data, !.raised = appended.raised]
     ELSE IF StartsWith(stripped, ITEM_PREFIX) /\ Truthy(p.key)
     THEN [p EXCEPT !.data = appended.data, !.raised = appended.raised]
     ELSE IF HasChar(raw, ":")
     THEN LET key == Strip(SplitHead(raw, ":"))
              value == Strip(SplitTail(raw, ":"))
          IN [p EXCEPT !.key = Some(key),
                       !.data = DictSet(p.data, key,
                                        IF value # <<>> THEN VStr(value)
                                        ELSE VList(<<>>))]
     ELSE p

RECURSIVE SanParseLoop(_, _)
\* the loop over fm_lines, which an AttributeError ends
SanParseLoop(p, fm_lines) ==
  IF fm_lines = <<>> \/ p.raised THEN p
  ELSE SanParseLoop(san_parse_line(p, Head(fm_lines)), Tail(fm_lines))

\* parse_front_matter(lines): data, rest, and whether it raised
san_parse_front_matter(ls) ==
  IF ls = <<>> \/ Strip(ls[1]) # DASHES
  THEN [data |-> EmptyDict, rest |-> ls, raised |-> FALSE]
  ELSE LET p == SanParseLoop(SanParseStart, SanFmLines(ls))
       IN [data |-> p.data, rest |-> SanRest(ls), raised |-> p.raised]

(***************************************************************************)
(* docset_sanitize.rebuild_toc and the two regular expressions.            *)
(***************************************************************************)
LINK_OPEN == <<"-"," ","[">>

\* len(match.group(1)) of (\s*): the white space the line begins with
Indent(line) == Len(line) - Len(LStrip(line))

\* the positions, in what follows "- [", of a ] that can end (.+?)
LinkClosings(s) == {j \in 2..(Len(s) - Len(LINK_OPEN)) : s[Len(LINK_OPEN) + j] = "]"}

\* re.match(r"- \[(.+?)\]", s) matches
LinkMatches(s) == StartsWith(s, LINK_OPEN) /\ LinkClosings(s) # {}

\* the group (.+?) of the match: up to the first ] after one character
LinkTitle(s) ==
  LET j == CHOOSE k \in LinkClosings(s) : \A l \in LinkClosings(s) : k <= l
  IN SubSeq(s, Len(LINK_OPEN) + 1, Len(LINK_OPEN) + j - 1)

\* re.match(r"(\s*)- \[(.+?)\]", line) matches
TocLineMatches(line) == LinkMatches(LStrip(line))

\* indent // 2 + 1
Depth(line) == (Indent(line) \div 2) + 1

\* one iteration of the loop of rebuild_toc: what it appends to result
rebuild_toc_line(line, depth_limit, stopwords) ==
  LET stop_set == {Lower(s) : s \in stopwords}
      title == Strip(LinkTitle(LStrip(line)))
      lower == Lower(title)
  IN IF ~StartsWith(LStrip(line), <<"-">>) THEN <<>>
     ELSE IF ~TocLineMatches(line) THEN <<>>
     ELSE IF Depth(line) > depth_limit THEN <<>>
     ELSE IF lower \in stop_set THEN <<>>
     ELSE IF lower = OVERVIEW /\ Depth(line) > 1 THEN <<>>
     ELSE <<RStripSet(line, {" ", NL})>>

RECURSIVE rebuild_toc(_, _, _)
rebuild_toc(text_lines, depth_limit, stopwords) ==
  IF text_lines = <<>> THEN <<>>
  ELSE rebuild_toc_line(Head(text_lines), depth_limit, stopwords)
       \o rebuild_toc(Tail(text_lines), depth_limit, stopwords)

(***************************************************************************)
(* docset_sanitize.sanitize_file: the loops over rest and key_sections.    *)
(* A position of rest counts from 1, and 0 stands for None.                *)
(***************************************************************************)
TocSearchStart == [toc_start |-> 0, toc_end |-> 0]

\* for i, line in enumerate(rest): one iteration, before the break
toc_search_line(t, i, line) ==
  IF Strip(line) = TOC_MARKER THEN [t EXCEPT !.toc_start = i]
  ELSE IF t.toc_start # 0 /\ StartsWith(line, HASH2_PREFIX) /\ i > t.toc_start
  THEN [t EXCEPT !.toc_end = i]
  ELSE t

RECURSIVE TocSearchLoop(_, _, _)
\* the loop from line i on, which the break ends
TocSearchLoop(t, ls, i) ==
  IF i > Len(ls) \/ t.toc_end # 0 THEN t
  ELSE TocSearchLoop(toc_search_line(t, i, ls[i]), ls, i + 1)

\* rest after the if that rebuilds the block
TrimToc(ls, depth_limit, stopwords) ==
  LET t == TocSearchLoop(TocSearchStart, ls, 1)
  IN IF t.toc_start # 0 /\ t.toc_end # 0
     THEN SubSeq(ls, 1, t.toc_start)
          \o rebuild_toc(SubSeq(ls, t.toc_start + 1, t.toc_end - 1),
                         depth_limit, stopwords)
          \o SubSeq(ls, t.toc_end, Len(ls))
     ELSE ls

\* title in sections
InSeq(x, s) == \E i \in 1..Len(s) : s[i] = x

\* the three tests of a title that both loops make, and the append
keep_title(kept, title, stopwords) ==
  IF Lower(title) \in stopwords \/ Lower(title) = OVERVIEW THEN kept
  ELSE IF InSeq(title, kept) THEN kept
  ELSE Append(kept, title)

RECURSIVE CleanSections(_, _, _)
\* for title in key_sections: cleaned_sections, from cleaned on
CleanSections(cleaned, sections, stopwords) ==
  IF sections = <<>> THEN cleaned
  ELSE CleanSections(keep_title(cleaned, Head(sections), stopwords),
                     Tail(sections), stopwords)

DERIVED_LIMIT == 10

RECURSIVE DeriveSections(_, _, _)
\* for line in rest: derived, which the break at ten titles ends
DeriveSections(derived, ls, stopwords) ==
  IF ls = <<>> \/ Len(derived) >= DERIVED_LIMIT THEN derived
  ELSE IF ~LinkMatches(Strip(Head(ls)))
  THEN DeriveSections(derived, Tail(ls), stopwords)
  ELSE DeriveSections(keep_title(derived, LinkTitle(Strip(Head(ls))), stopwords),
                      Tail(ls), stopwords)

(***************************************************************************)
(* docset_sanitize.build_front_matter                                      *)
(***************************************************************************)
SUMMARY_LIMIT == 6

WRITTEN_LIMIT == 20

\* s[:n]
Prefix(s, n) == SubSeq(s, 1, Min(n, Len(s)))

RECURSIVE Join(_, _)
\* sep.join(strs)
Join(strs, sep) ==
  IF strs = <<>> THEN <<>>
  ELSE IF Len(strs) = 1 THEN strs[1]
  ELSE strs[1] \o sep \o Join(Tail(strs), sep)

RECURSIVE IntText(_)
\* str(n) for n >= 0
IntText(n) ==
  IF n < 10 THEN <<DigitSeq[n + 1]>>
  ELSE IntText(n \div 10) \o <<DigitSeq[(n % 10) + 1]>>

\* f"{value}" of a list of str without quotes in them
ReprList(items) ==
  <<"[">> \o Join([i \in 1..Len(items) |-> <<"'">> \o items[i] \o <<"'">>], <<",", " ">>)
  \o <<"]">>

\* f"{value}"
ValueText(val) == IF val.t = "str" THEN val.v ELSE ReprList(val.v)

\* emit(key, meta.get(key)): the lines it appends
Emit(data, key) ==
  IF key \notin DOMAIN data THEN <<>>
  ELSE IF data[key].t = "str" /\ data[key].v = <<>> THEN <<>>
  ELSE <<key \o <<":", " ">> \o ValueText(data[key])>>

K_SUMMARY == <<"s","u","m","m","a","r","y">>

L_SANITIZER == <<"s","a","n","i","t","i","z","e","r",":">>

L_GENERATED_AT == <<" "," ","g","e","n","e","r","a","t","e","d","_","a","t",":"," ">>

L_TOC_DEPTH == <<" "," ","t","o","c","_","d","e","p","t","h",":"," ">>

L_STOPWORDS == <<" "," ","s","t","o","p","w","o","r","d","s",":">>

WORD_PREFIX == <<" "," "," "," ","-"," ">>

build_front_matter(data, sections, depth_limit, stopwords, now) ==
  LET summary == Join(Prefix(sections, SUMMARY_LIMIT), <<",", " ">>)
      written == Prefix(sections, WRITTEN_LIMIT)
      words == Sorted(stopwords)
  IN <<DASHES>>
     \o Emit(data, K_TITLE)
     \o Emit(data, K_DOCSET_VERSION)
     \o Emit(data, K_EXPORTED_AT)
     \o Emit(data, K_DOC_COUNT)
     \o Emit(data, K_FILE_SIZE)
     \o (IF summary # <<>> THEN <<K_SUMMARY \o <<":", " ">> \o summary>> ELSE <<>>)
     \o <<L_KEY_SECTIONS>>
     \o [i \in 1..Len(written) |-> <<" ", " ", "-", " ">> \o written[i]]
     \o <<L_SANITIZER, L_GENERATED_AT \o now, L_TOC_DEPTH \o IntText(depth_limit),
          L_STOPWORDS>>
     \o [i \in 1..Len(words) |-> WORD_PREFIX \o words[i]]
     \o <<DASHES>>

(***************************************************************************)
(* docset_sanitize.sanitize_file, run by main.                             *)
(***************************************************************************)
\* text = ...splitlines(); meta, rest = parse_front_matter(text); key_sections
\* = meta.get("key_sections", []), or [] if that is no list
SanParse ==
  /\ san_pc = "start"
  /\ LET r == san_parse_front_matter(san_text)
         found == FmGet(r.data, KEY_SECTIONS, VList(<<>>))
     IN IF r.raised
        THEN /\ san_pc' = "raised"
             /\ UNCHANGED <<meta, rest, key_sections>>
        ELSE /\ san_pc' = "toc"
             /\ meta' = r.data
             /\ rest' = r.rest
             /\ key_sections' = IF found.t = "list" THEN found.v ELSE <<>>
  /\ UNCHANGED <<san_text, toc_depth, san_stopwords, output>>
  /\ UNCHANGED <<docVars, peekVars, buildVars, searchVars, slugVars>>

\* the search for toc_start and toc_end, and the rebuilt block
SanTrimToc ==
  /\ san_pc = "toc"
  /\ rest' = TrimToc(rest, toc_depth, san_stopwords)
  /\ san_pc' = "clean"
  /\ UNCHANGED <<san_text, toc_depth, san_stopwords, meta, key_sections, output>>
  /\ UNCHANGED <<docVars, peekVars, buildVars, searchVars, slugVars>>

\* key_sections = cleaned_sections
SanClean ==
  /\ san_pc = "clean"
  /\ key_sections' = CleanSections(<<>>, key_sections, san_stopwords)
  /\ san_pc' = IF key_sections' = <<>> THEN "derive" ELSE "write"
  /\ UNCHANGED <<san_text, toc_depth, san_stopwords, meta, rest, output>>
  /\ UNCHANGED <<docVars, peekVars, buildVars, searchVars, slugVars>>

\* if not key_sections: key_sections = derived
SanDerive ==
  /\ san_pc = "derive"
  /\ key_sections' = DeriveSections(<<>>, rest, san_stopwords)
  /\ san_pc' = "write"
  /\ UNCHANGED <<san_text, toc_depth, san_stopwords, meta, rest, output>>
  /\ UNCHANGED <<docVars, peekVars, buildVars, searchVars, slugVars>>

\* output.write_text("\n".join(fm_lines + rest) + "\n")
SanWrite ==
  /\ san_pc = "write"
  /\ \E now \in Clock :
       output' = Some(build_front_matter(meta, key_sections, toc_depth,
                                         san_stopwords, now) \o rest)
  /\ san_pc' = "returned"
  /\ UNCHANGED <<san_text, toc_depth, san_stopwords, meta, rest, key_sections>>
  /\ UNCHANGED <<docVars, peekVars, buildVars, searchVars, slugVars>>

\* an item that is Overview
S_OVERVIEW == <<" "," ","-"," ","O","v","e","r","v","i","e","w">>

\* the same item after two spaces
S_OVERVIEW_WIDE == <<" "," ","-"," "," ","O","v","e","r","v","i","e","w">>

\* a default stopword in upper case
S_DISCUSSION == <<" "," ","-"," ","D","I","S","C","U","S","S","I","O","N">>

SanHeaderPool == {L_KEY_SECTIONS, S_OVERVIEW, S_OVERVIEW_WIDE, S_DISCUSSION, L_ITEM_X,
                  L_TITLE}

\* a link line at indent 0
T_TOP == <<"-"," ","[","A","b","]","(","#","a",")">>

\* a link line at indent 2 whose title is Overview
T_NESTED == <<" "," ","-"," ","[","O","v","e","r","v","i","e","w","]","(","#","o",")">>

\* a link line at indent 4
T_DEEP == <<" "," "," "," ","-"," ","[","C","d","]","(","#","c",")">>

\* a link line whose title begins with a space
T_PADDED == <<"-"," ","[", " ","O","v","e","r","v","i","e","w","]","(","#","o",")">>

SanBodyPool == {TOC_MARKER, T_TOP, T_NESTED, T_DEEP, T_PADDED, L_H2}

\* the documents: with a closed header, or with none
SanDocs ==
  {<<DASHES>> \o h \o <<DASHES>> \o b :
     h \in SeqUpTo(SanHeaderPool, MaxSanHeader), b \in SeqUpTo(SanBodyPool, MaxSanBody)}
  \cup SeqUpTo(SanBodyPool, MaxSanBody)

\* --toc-depth: the default and one below it
TocDepths == {1, 2}

\* the words given with --stopword
StopwordArgs == {{}, {<<"A","b">>}}

InitSan ==
  /\ IdleDoc
  /\ IdlePeek
  /\ IdleBuild
  /\ IdleSearch
  /\ IdleSlug
  /\ san_text \in SanDocs
  /\ toc_depth \in TocDepths
  /\ san_stopwords \in {MainStopwords \cup {Lower(s) : s \in args} : args \in StopwordArgs}
  /\ san_pc = "start"
  /\ meta = EmptyDict
  /\ rest = <<>>
  /\ key_sections = <<>>
  /\ output = None

NextSan == SanParse \/ SanTrimToc \/ SanClean \/ SanDerive \/ SanWrite

SpecSan == InitSan /\ [][NextSan]_vars

\* the key_sections of the output file, as the index builder reads them
OutputKeySections == parse_front_matter(output[1]).data[KEY_SECTIONS].v

\* the str is Overview or a default stopword, whatever its case
IsDroppedWord(s) == Lower(s) \in {Lower(OVERVIEW)} \cup {Lower(w) : w \in STOPWORDS_DEFAULT}

\* C11: after sanitize_file has run with the default stopword set, no item of
\* the key_sections of the output equals Overview or a default stopword under
\* case-insensitive comparison.
C11_NoStopwordKeySection ==
  (san_pc = "returned" /\ san_stopwords = MainStopwords) =>
    \A i \in 1..Len(OutputKeySections) : ~IsDroppedWord(OutputKeySections[i])

\* the position of the first marker line of the lines, or 0
MarkerAt(ls) ==
  LET at == {i \in 1..Len(ls) : Strip(ls[i]) = TOC_MARKER}
  IN IF at = {} THEN 0 ELSE CHOOSE i \in at : \A j \in at : i <= j

\* the lines of the Table of Contents: those after the first marker line, up
\* to the next line that begins with ## or to the end
TocOf(ls) ==
  LET m == MarkerAt(ls)
      ends == {i \in (m + 1)..Len(ls) : StartsWith(ls[i], HASH2_PREFIX)}
      last == IF ends = {} THEN Len(ls) ELSE (CHOOSE i \in ends : \A j \in ends : i <= j) - 1
  IN IF m = 0 THEN <<>> ELSE SubSeq(ls, m + 1, last)

\* C12: when the input holds a Table of Contents, the Table of Contents of
\* the output holds no link line whose depth, indentation // 2 + 1, is
\* greater than toc_depth.
C12_TocDepthLimit ==
  (san_pc = "returned" /\ MarkerAt(san_text) # 0) =>
    \A i \in 1..Len(TocOf(output[1])) :
      TocLineMatches(TocOf(output[1])[i]) => Depth(TocOf(output[1])[i]) <= toc_depth

====
